---- MODULE Spec2Model ----
(***************************************************************************)
(* Model of the Tic Tac Toe component in                                   *)
(* src/tic_tac_toe_frontend/src/App.js.                                    *)
(*                                                                         *)
(* The state is the component's React state (squares, xIsNext, isGameOver, *)
(* winner, winningLine, moveCount).  An event handler reads the values of  *)
(* the last committed render; the updates a click or reset handler queues  *)
(* are rendered and committed before the next event is dispatched, so a    *)
(* handler and its render are one step.  The status is a useMemo value     *)
(* derived from squares, xIsNext and moveCount during render.  The effect  *)
(* at App.js:48-53 copies the status into winner, winningLine and          *)
(* isGameOver; the state updates it queues are rendered in a later task    *)
(* than the commit that triggered it, so it is a step of its own           *)
(* (SyncEffect) and a handler may run between the commit and that step.    *)
(***************************************************************************)
EXTENDS Integers, Sequences, FiniteSets, TLC

VARIABLES squares, xIsNext, isGameOver, winner, winningLine, moveCount,
          effectPending, lastEvent

vars == <<squares, xIsNext, isGameOver, winner, winningLine, moveCount,
          effectPending, lastEvent>>

\* Number of cells of the board (Array(9)).
BoardSize == 9

\* How far outside 0..BoardSize-1 the clicked index may lie.
OutOfRange == 1

Cells == 0..(BoardSize - 1)

\* The indices a caller may pass to handleClick.
ClickInputs == (0 - OutOfRange)..(BoardSize - 1 + OutOfRange)

\* JavaScript null, and the value of an array read outside its bounds.
Null == "null"
Undefined == "undefined"

Marks == {"X", "O"}

\* Array(9).fill(null)
EmptyBoard == [c \in Cells |-> Null]

\* Variant of SquareAt: a read outside the array yields null.
SquareAtNullOutside(sq, index) == IF index \in DOMAIN sq THEN sq[index] ELSE Null

\* squares[index]: undefined outside the array.
SquareAt(sq, index) == IF index \in DOMAIN sq THEN sq[index] ELSE Undefined

\* Variant of lines: the diagonals are scanned before the rows and columns.
linesDiagonalsFirst == << <<0, 4, 8>>, <<2, 4, 6>>,
                          <<0, 1, 2>>, <<3, 4, 5>>, <<6, 7, 8>>,
                          <<0, 3, 6>>, <<1, 4, 7>>, <<2, 5, 8>> >>

\* Variant of lines: the last column is mistyped as [2, 5, 7].
linesMistypedColumn == << <<0, 1, 2>>, <<3, 4, 5>>, <<6, 7, 8>>,
                          <<0, 3, 6>>, <<1, 4, 7>>, <<2, 5, 7>>,
                          <<0, 4, 8>>, <<2, 4, 6>> >>

\* The table of calculateWinner, in its scan order.
lines == << <<0, 1, 2>>, <<3, 4, 5>>, <<6, 7, 8>>,
            <<0, 3, 6>>, <<1, 4, 7>>, <<2, 5, 8>>,
            <<0, 4, 8>>, <<2, 4, 6>> >>

\* Variant of LineMatches: the third cell of the triple is not compared.
LineMatchesFirstTwo(sq, l) ==
    /\ sq[l[1]] # Null
    /\ sq[l[1]] = sq[l[2]]

\* if (squares[a] && squares[a] === squares[b] && squares[a] === squares[c])
LineMatches(sq, l) ==
    /\ sq[l[1]] # Null
    /\ sq[l[1]] = sq[l[2]]
    /\ sq[l[1]] = sq[l[3]]

\* The for loop of calculateWinner from position i on.
RECURSIVE ScanFrom(_, _)
ScanFrom(sq, i) ==
    IF i > Len(lines) THEN [winner |-> Null, line |-> <<>>]
    ELSE IF LineMatches(sq, lines[i])
         THEN [winner |-> sq[lines[i][1]], line |-> lines[i]]
         ELSE ScanFrom(sq, i + 1)

calculateWinner(sq) == ScanFrom(sq, 1)

\* Variant of status: the full board is tested before the winner.
statusDrawFirst(sq, xNext, count) ==
    LET r == calculateWinner(sq) IN
    IF count = 9
    THEN [label |-> "Draw! No more moves.",
          winner |-> Null, line |-> <<>>, draw |-> TRUE]
    ELSE IF r.winner # Null
    THEN [label |-> IF r.winner = "X" THEN "Winner: X" ELSE "Winner: O",
          winner |-> r.winner, line |-> r.line, draw |-> FALSE]
    ELSE [label |-> IF xNext THEN "Next Player: X" ELSE "Next Player: O",
          winner |-> Null, line |-> <<>>, draw |-> FALSE]

\* Variant of status: the draw test is off by one.
statusDrawAtEight(sq, xNext, count) ==
    LET r == calculateWinner(sq) IN
    IF r.winner # Null
    THEN [label |-> IF r.winner = "X" THEN "Winner: X" ELSE "Winner: O",
          winner |-> r.winner, line |-> r.line, draw |-> FALSE]
    ELSE IF count = 8
    THEN [label |-> "Draw! No more moves.",
          winner |-> Null, line |-> <<>>, draw |-> TRUE]
    ELSE [label |-> IF xNext THEN "Next Player: X" ELSE "Next Player: O",
          winner |-> Null, line |-> <<>>, draw |-> FALSE]

\* The useMemo value `status`.
status(sq, xNext, count) ==
    LET r == calculateWinner(sq) IN
    IF r.winner # Null
    THEN [label |-> IF r.winner = "X" THEN "Winner: X" ELSE "Winner: O",
          winner |-> r.winner, line |-> r.line, draw |-> FALSE]
    ELSE IF count = 9
    THEN [label |-> "Draw! No more moves.",
          winner |-> Null, line |-> <<>>, draw |-> TRUE]
    ELSE [label |-> IF xNext THEN "Next Player: X" ELSE "Next Player: O",
          winner |-> Null, line |-> <<>>, draw |-> FALSE]

\* The status of the current render.
Status == status(squares, xIsNext, moveCount)

\* Variant of ClickIgnored: an occupied cell is not refused.
ClickIgnoredUnlessOccupied(index) ==
    isGameOver \/ SquareAt(squares, index) = Undefined

\* Variant of ClickIgnored: the end of the game is not tested.
ClickIgnoredOccupiedOnly(index) == SquareAt(squares, index) # Null

\* Variant of ClickIgnored: a click is also refused from the eighth move on.
ClickIgnoredFromEighthMove(index) ==
    isGameOver \/ SquareAt(squares, index) # Null \/ moveCount >= 8

\* The guard of handleClick: true when the click is ignored.
ClickIgnored(index) == isGameOver \/ SquareAt(squares, index) # Null

\* Variant of MarkOf: the two marks are exchanged.
MarkOfSwapped(xNext) == IF xNext THEN "O" ELSE "X"

\* Variant of MarkOf: the turn indicator is not consulted.
MarkOfAlwaysX(xNext) == "X"

\* xIsNext ? 'X' : 'O'
MarkOf(xNext) == IF xNext THEN "X" ELSE "O"

\* Variant of NextSquares: the mark of the other player is placed.
NextSquaresOtherMark(index) == [squares EXCEPT ![index] = MarkOf(~xIsNext)]

\* nextSquares: a copy of squares with the clicked cell set.
NextSquares(index) == [squares EXCEPT ![index] = MarkOf(xIsNext)]

\* The disabled attribute of the button that renderSquare(i) produces.
Disabled(i) == isGameOver \/ squares[i] # Null

Init ==
    /\ squares = EmptyBoard
    /\ xIsNext = TRUE
    /\ isGameOver = FALSE
    /\ winner = Null
    /\ winningLine = <<>>
    /\ moveCount = 0
    /\ effectPending = TRUE
    /\ lastEvent = [op |-> "mount"]

\* handleClick(index) and the render of the updates it queues.
HandleClick(index) ==
    /\ IF ClickIgnored(index)
       THEN /\ UNCHANGED <<squares, xIsNext, moveCount, effectPending>>
            /\ lastEvent' = [op |-> "click", index |-> index, accepted |-> FALSE]
       ELSE /\ squares' = NextSquares(index)
            /\ xIsNext' = ~xIsNext
            /\ moveCount' = moveCount + 1
            /\ effectPending' = TRUE
            /\ lastEvent' = [op |-> "click", index |-> index, accepted |-> TRUE]
    /\ UNCHANGED <<isGameOver, winner, winningLine>>

\* Variant of resetBoard: the turn indicator is kept.
resetBoardKeepTurn ==
    /\ squares' = EmptyBoard
    /\ xIsNext' = xIsNext
    /\ isGameOver' = FALSE
    /\ winner' = Null
    /\ winningLine' = <<>>
    /\ moveCount' = 0

\* Variant of resetBoard: the move count is kept.
resetBoardKeepCount ==
    /\ squares' = EmptyBoard
    /\ xIsNext' = TRUE
    /\ isGameOver' = FALSE
    /\ winner' = Null
    /\ winningLine' = <<>>
    /\ moveCount' = moveCount

\* Variant of resetBoard: the winner and the winning line are kept.
resetBoardKeepWinner ==
    /\ squares' = EmptyBoard
    /\ xIsNext' = TRUE
    /\ isGameOver' = FALSE
    /\ winner' = winner
    /\ winningLine' = winningLine
    /\ moveCount' = 0

\* The six state updates of resetBoard().
resetBoard ==
    /\ squares' = EmptyBoard
    /\ xIsNext' = TRUE
    /\ isGameOver' = FALSE
    /\ winner' = Null
    /\ winningLine' = <<>>
    /\ moveCount' = 0

\* The "Reset Board" button: resetBoard() and the render of its updates.
\* squares is a new array, so the status is recomputed and the effect runs.
ResetBoard ==
    /\ resetBoard
    /\ effectPending' = TRUE
    /\ lastEvent' = [op |-> "reset"]

\* Variant of RestartGame: the restart hands the first move to O.
RestartGameSwapStarter ==
    /\ squares' = EmptyBoard
    /\ xIsNext' = FALSE
    /\ isGameOver' = FALSE
    /\ winner' = Null
    /\ winningLine' = <<>>
    /\ moveCount' = 0
    /\ effectPending' = TRUE
    /\ lastEvent' = [op |-> "restart"]

\* The "Restart Game" button: restartGame() calls resetBoard().
RestartGame ==
    /\ resetBoard
    /\ effectPending' = TRUE
    /\ lastEvent' = [op |-> "restart"]

\* The status effect and the render of the updates it queues.
SyncEffect ==
    /\ effectPending
    /\ winner' = Status.winner
    /\ winningLine' = Status.line
    /\ isGameOver' = ((Status.winner # Null) \/ Status.draw)
    /\ effectPending' = FALSE
    /\ lastEvent' = [op |-> "effect"]
    /\ UNCHANGED <<squares, xIsNext, moveCount>>

Next ==
    \/ \E index \in ClickInputs : HandleClick(index)
    \/ ResetBoard
    \/ RestartGame
    \/ SyncEffect

Spec == Init /\ [][Next]_vars

(***************************************************************************)
(* Evaluation of the status over arbitrary inputs: the board ranges over   *)
(* all 3^9 arrays of null/'X'/'O', the move count over 0..9 and the turn   *)
(* over both values; the only step is the render's status computation and  *)
(* the effect that stores it.                                              *)
(***************************************************************************)
AllBoards == [Cells -> {Null, "X", "O"}]

InitEval ==
    /\ squares \in AllBoards
    /\ xIsNext \in BOOLEAN
    /\ moveCount \in 0..BoardSize
    /\ isGameOver = FALSE
    /\ winner = Null
    /\ winningLine = <<>>
    /\ effectPending = TRUE
    /\ lastEvent = [op |-> "mount"]

NextEval == SyncEffect

SpecEval == InitEval /\ [][NextEval]_vars

(***************************************************************************)
(* Vocabulary of the properties, written without the evaluator's           *)
(* definitions.                                                            *)
(***************************************************************************)
\* The 8 triples in the order the specification lists them.
Triples == << <<0, 1, 2>>, <<3, 4, 5>>, <<6, 7, 8>>,
              <<0, 3, 6>>, <<1, 4, 7>>, <<2, 5, 8>>,
              <<0, 4, 8>>, <<2, 4, 6>> >>

\* Triple t of board sq is filled with one mark.
Completed(sq, t) == \E m \in Marks : \A k \in 1..3 : sq[t[k]] = m

SomeCompleted(sq) == \E n \in 1..8 : Completed(sq, Triples[n])

Filled(sq) == {c \in Cells : sq[c] # Null}

\* The outcome shown for the current render.
OutcomeWin == Status.winner # Null
OutcomeDraw == Status.draw
OutcomeNone == ~OutcomeWin /\ ~OutcomeDraw

IsClick(e) == e.op = "click"
IsReset(e) == e.op \in {"reset", "restart"}

\* C1 (as stated): once the outcome is Win or Draw, every click, also one
\* handled before the effect has set isGameOver, leaves board, turn
\* indicator and move count as they were.
C1_NoMoveAfterGameOver ==
    [][(OutcomeWin \/ OutcomeDraw) /\ IsClick(lastEvent')
         => UNCHANGED <<squares, xIsNext, moveCount>>]_vars

\* C2: a click on an occupied cell changes neither the board, nor the move
\* count, nor the turn indicator.
C2_OccupiedClickIsNoOp ==
    [][IsClick(lastEvent') /\ lastEvent'.index \in Cells
         /\ squares[lastEvent'.index] # Null
         => UNCHANGED <<squares, xIsNext, moveCount>>]_vars

\* C2 witness: a click on an occupied cell was refused while the game was
\* still open.
C2_Witness ==
    /\ IsClick(lastEvent) /\ ~lastEvent.accepted
    /\ lastEvent.index \in Cells
    /\ squares[lastEvent.index] # Null
    /\ ~isGameOver /\ OutcomeNone

\* C3: every step either is an accepted click that puts the mover's mark in
\* exactly the clicked cell, adds one to the move count and flips the turn,
\* or is a reset, or leaves board, move count and turn untouched; the board
\* always has 9 cells.
C3_AcceptedMoveIsAtomic ==
    [][/\ DOMAIN squares' = 0..8
       /\ \/ /\ IsClick(lastEvent') /\ lastEvent'.accepted
             /\ lastEvent'.index \in 0..8
             /\ squares[lastEvent'.index] = Null
             /\ squares'[lastEvent'.index] = (IF xIsNext THEN "X" ELSE "O")
             /\ \A c \in 0..8 : c # lastEvent'.index => squares'[c] = squares[c]
             /\ moveCount' = moveCount + 1
             /\ xIsNext' = ~xIsNext
          \/ /\ IsReset(lastEvent')
          \/ /\ ~IsReset(lastEvent')
             /\ IsClick(lastEvent') => ~lastEvent'.accepted
             /\ UNCHANGED <<squares, xIsNext, moveCount>>]_vars

\* C3 witness: the fourth move was just accepted.
C3_Witness ==
    /\ IsClick(lastEvent) /\ lastEvent.accepted
    /\ moveCount = 4
    /\ squares[lastEvent.index] = "O"

\* C4: X is to move exactly when the move count is even.
C4_TurnMatchesParity == xIsNext <=> (moveCount % 2 = 0)

\* C4 witness: after three accepted moves a click was refused and O is
\* still to move.
C4_Witness ==
    /\ IsClick(lastEvent) /\ ~lastEvent.accepted
    /\ moveCount = 3 /\ ~xIsNext

\* C5: the move count is the number of non-empty cells and lies in 0..9.
C5_MoveCountIsFilledCells ==
    /\ moveCount = Cardinality(Filled(squares))
    /\ moveCount \in 0..9

\* C5 witness: the board is full and a further click was refused.
C5_Witness ==
    /\ moveCount = 9
    /\ IsClick(lastEvent) /\ ~lastEvent.accepted

\* Every cell empty, X to move, no move made, no outcome stored or shown.
InitialSnapshot ==
    /\ squares = [c \in 0..8 |-> "null"]
    /\ xIsNext = TRUE
    /\ moveCount = 0
    /\ winner = "null"
    /\ winningLine = <<>>
    /\ isGameOver = FALSE
    /\ OutcomeNone

\* C6: a reset or restart, from any state, ends in the initial snapshot, and
\* a second one in a row changes nothing of it.
C6_ResetYieldsInitialSnapshot ==
    [][/\ IsReset(lastEvent') => InitialSnapshot'
       /\ IsReset(lastEvent) /\ IsReset(lastEvent')
            => UNCHANGED <<squares, xIsNext, moveCount, winner, winningLine,
                           isGameOver>>]_vars

\* C6 witness: a restart has just produced the initial snapshot.
C6_Witness == lastEvent.op = "restart" /\ InitialSnapshot

\* The accepted click recorded in e filled a triple through its cell with
\* the mark it placed.
MoveCompletesTriple(sq, e) ==
    \E n \in 1..8 :
        /\ \E k \in 1..3 : Triples[n][k] = e.index
        /\ \A k \in 1..3 : sq[Triples[n][k]] = sq[e.index]

\* C7: from an outcome of None a step leads to Win exactly when it is an
\* accepted click that completes a triple; the winner is then the mark just
\* placed, which is not the mark the turn indicator now shows; and the
\* board of moves 0,1,3,2,6 shows Win for X with line [0,3,6].
C7_WonExactlyOnCompletingMove ==
    [][/\ OutcomeNone =>
            /\ OutcomeWin' <=>
                  /\ IsClick(lastEvent') /\ lastEvent'.accepted
                  /\ MoveCompletesTriple(squares', lastEvent')
            /\ OutcomeWin' =>
                  /\ Status'.winner = (IF xIsNext THEN "X" ELSE "O")
                  /\ Status'.winner = squares'[lastEvent'.index]
                  /\ Status'.winner # (IF xIsNext' THEN "X" ELSE "O")
       /\ squares' = (0 :> "X" @@ 1 :> "O" @@ 2 :> "O" @@ 3 :> "X" @@ 4 :> "null"
                      @@ 5 :> "null" @@ 6 :> "X" @@ 7 :> "null" @@ 8 :> "null")
            => Status'.winner = "X" /\ Status'.line = <<0, 3, 6>>]_vars

\* C7 witness: the moves 0,1,3,2,6 were played, the last one just now.
C7_Witness ==
    /\ squares = (0 :> "X" @@ 1 :> "O" @@ 2 :> "O" @@ 3 :> "X" @@ 4 :> "null"
                  @@ 5 :> "null" @@ 6 :> "X" @@ 7 :> "null" @@ 8 :> "null")
    /\ lastEvent = [op |-> "click", index |-> 6, accepted |-> TRUE]
    /\ moveCount = 5
    /\ OutcomeWin

\* C8: the outcome is Draw exactly when no triple is completed and the move
\* count is 9, for the outcome shown and, once the effect has run, for the
\* stored flags.
C8_DrawIffFullWithoutTriple ==
    /\ OutcomeDraw <=> (~SomeCompleted(squares) /\ moveCount = 9)
    /\ ~effectPending =>
          ((isGameOver /\ winner = "null")
             <=> (~SomeCompleted(squares) /\ moveCount = 9))
    /\ (moveCount = 9 /\ SomeCompleted(squares)) => (OutcomeWin /\ ~OutcomeDraw)

\* C8 witness: the ninth move filled the board without a triple and the
\* effect has stored the draw.
C8_Witness ==
    /\ moveCount = 9 /\ ~SomeCompleted(squares)
    /\ ~effectPending /\ isGameOver /\ winner = "null" /\ OutcomeDraw

\* C8 second case: the ninth move completed a triple.
C8_NinthMoveWins == moveCount = 9 /\ SomeCompleted(squares) /\ OutcomeWin

\* Triple n is the first completed triple of sq in the listed order.
FirstCompleted(sq, n) ==
    /\ Completed(sq, Triples[n])
    /\ \A j \in 1..(n - 1) : ~Completed(sq, Triples[j])

\* C9: for every board the evaluator yields the mark and indices of the
\* first completed triple in the order rows, columns, diagonals, and no
\* winner with an empty line exactly when there is none; the board is not
\* modified.
C9_EvaluatorReturnsFirstTriple ==
    [][lastEvent'.op = "effect" =>
         /\ squares' = squares
         /\ \A n \in 1..8 : FirstCompleted(squares, n) =>
               /\ winner' = squares[Triples[n][1]]
               /\ winningLine' = Triples[n]
         /\ (winner' = "null") <=> ~SomeCompleted(squares)
         /\ (winningLine' = <<>>) <=> ~SomeCompleted(squares)]_vars

\* C9 witness: a board with a completed column and a completed diagonal was
\* evaluated and the column was returned.
C9_Witness ==
    /\ lastEvent.op = "effect"
    /\ Completed(squares, <<0, 3, 6>>) /\ Completed(squares, <<2, 4, 6>>)
    /\ ~Completed(squares, <<0, 1, 2>>) /\ ~Completed(squares, <<3, 4, 5>>)
    /\ ~Completed(squares, <<6, 7, 8>>)
    /\ winningLine = <<0, 3, 6>>

C11_FreshSessionFirstMoveIsX ==
    [][/\ lastEvent.op = "mount" =>
             /\ squares = [c \in 0..8 |-> "null"]
             /\ xIsNext /\ moveCount = 0 /\ OutcomeNone /\ ~isGameOver
       /\ (Filled(squares) = {} /\ IsClick(lastEvent')
              /\ lastEvent'.index \in 0..8) =>
             /\ lastEvent'.accepted
             /\ squares' = [c \in 0..8 |->
                              IF c = lastEvent'.index THEN "X" ELSE "null"]]_vars

\* C11 witness: the first click of a session was accepted and placed X.
C11_Witness ==
    /\ IsClick(lastEvent) /\ lastEvent.accepted
    /\ moveCount = 1
    /\ squares[lastEvent.index] = "X"
    /\ Filled(squares) = {lastEvent.index}

(***************************************************************************)
(* A scripted session: the clicks that handleClick accepts are those of    *)
(* the index sequence 0,1,2,3,4,6,5,7,8, in that order; clicks that        *)
(* handleClick ignores may come in between.                                *)
(***************************************************************************)
ScenarioIndices == <<0, 1, 2, 3, 4, 6, 5, 7, 8>>

ScenarioClick ==
    \E index \in ClickInputs :
        /\ \/ ClickIgnored(index)
           \/ /\ moveCount < Len(ScenarioIndices)
              /\ index = ScenarioIndices[moveCount + 1]
        /\ HandleClick(index)

NextScenario ==
    \/ ScenarioClick
    \/ SyncEffect

SpecScenario == Init /\ [][NextScenario]_vars

\* The cells of the first n clicks of the scripted session.
ScenarioCells(n) == {ScenarioIndices[k] : k \in 1..n}

\* C12 (as stated): the clicks 0,1,2,3,4,6,5,7,8 fill all 9 cells without
\* completing a triple and the outcome is Draw.
C12_ScenarioEndsInDraw ==
    moveCount = 9 =>
        /\ Filled(squares) = Cells
        /\ ~SomeCompleted(squares)
        /\ OutcomeDraw

\* C12 (amended): each of the clicks 0,1,2,3,4,6,5,7,8 is accepted with the
\* marks alternating from X, no triple is completed by the first eight, and
\* the ninth puts X in cell 8, which completes [2,5,8] and [0,4,8]: all 9
\* cells are filled and the outcome is Win for X with line [2,5,8].
C12_ScenarioEndsInWinForX ==
    /\ moveCount \in 0..9
    /\ Filled(squares) = ScenarioCells(moveCount)
    /\ \A k \in 1..moveCount :
          squares[ScenarioIndices[k]] = (IF k % 2 = 1 THEN "X" ELSE "O")
    /\ moveCount < 9 => (~SomeCompleted(squares) /\ OutcomeNone)
    /\ moveCount = 9 =>
          /\ Filled(squares) = Cells
          /\ Completed(squares, <<2, 5, 8>>) /\ Completed(squares, <<0, 4, 8>>)
          /\ ~OutcomeDraw
          /\ Status.winner = "X" /\ Status.line = <<2, 5, 8>>
          /\ ~effectPending => (isGameOver /\ winner = "X"
                                  /\ winningLine = <<2, 5, 8>>)

\* C12 witness: the ninth scripted click was accepted and the effect has
\* stored the result.
C12_Witness ==
    /\ moveCount = 9 /\ Filled(squares) = Cells
    /\ squares[8] = "X"
    /\ ~effectPending /\ isGameOver /\ winner = "X"

\* C13: a click with an index outside 0..8 is refused: board, turn
\* indicator, move count and the stored outcome are unchanged and the board
\* keeps its 9 cells.
C13_OutOfRangeClickIsNoOp ==
    [][(IsClick(lastEvent') /\ lastEvent'.index \notin 0..8) =>
          /\ ~lastEvent'.accepted
          /\ DOMAIN squares' = 0..8
          /\ UNCHANGED <<squares, xIsNext, moveCount, isGameOver, winner,
                         winningLine>>]_vars

\* C13 witness: a click with index 9 or -1 was refused during an open game
\* with empty cells left.
C13_Witness ==
    /\ IsClick(lastEvent) /\ lastEvent.index \in {0 - 1, 9}
    /\ ~lastEvent.accepted
    /\ ~isGameOver /\ OutcomeNone
    /\ moveCount = 2

\* C14: "Restart Game" and "Reset Board" are equivalent: a restart step
\* changes every state variable exactly as resetBoard does from the same
\* state, and a reset step ends in the state a restart would end in.
C14_RestartEqualsReset ==
    [][/\ lastEvent'.op = "restart" => (resetBoard /\ effectPending')
       /\ IsReset(lastEvent') =>
             /\ squares' = EmptyBoard /\ xIsNext' /\ moveCount' = 0
             /\ ~isGameOver' /\ winner' = Null /\ winningLine' = <<>>
             /\ effectPending']_vars

\* C14 witness: a restart was carried out and its effect has not run yet.
C14_Witness ==
    /\ lastEvent.op = "restart"
    /\ effectPending /\ squares = EmptyBoard /\ xIsNext

\* C15 (as stated): whenever a click or reset handler runs, the stored
\* flags isGameOver, winner and winningLine it reads equal the values
\* derived from the squares and moveCount it reads; isGameOver is true
\* exactly when a triple is completed or moveCount is 9.
C15_HandlersSeeSyncedFlags ==
    [][(IsClick(lastEvent') \/ IsReset(lastEvent')) =>
          /\ winner = Status.winner
          /\ winningLine = Status.line
          /\ isGameOver = (SomeCompleted(squares) \/ moveCount = 9)]_vars

\* Mark m has a completed triple on board sq.
HasTriple(sq, m) ==
    \E n \in 1..8 : \A k \in 1..3 : sq[Triples[n][k]] = m

\* C16 (as stated): no reachable board has a completed triple of X and a
\* completed triple of O.
C16_NoTwoWinners == ~(HasTriple(squares, "X") /\ HasTriple(squares, "O"))

\* C17: the button of cell i is disabled exactly when handleClick(i) is
\* refused: a click on an enabled cell is accepted and changes the board, a
\* click on a disabled cell is refused and changes nothing; a cell is
\* disabled exactly when it is non-empty or the isGameOver flag is set.
C17_DisabledIffRejected ==
    [][(IsClick(lastEvent') /\ lastEvent'.index \in 0..8) =>
          /\ Disabled(lastEvent'.index) <=> ~lastEvent'.accepted
          /\ Disabled(lastEvent'.index) =>
                UNCHANGED <<squares, xIsNext, moveCount>>
          /\ ~Disabled(lastEvent'.index) =>
                /\ squares'[lastEvent'.index] # "null"
                /\ moveCount' = moveCount + 1
          /\ Disabled(lastEvent'.index) <=>
                (squares[lastEvent'.index] # "null" \/ isGameOver)]_vars

\* C17 witness: the game is over, and a click on an empty, disabled cell was
\* refused.
C17_Witness ==
    /\ IsClick(lastEvent) /\ ~lastEvent.accepted
    /\ lastEvent.index \in 0..8
    /\ squares[lastEvent.index] = "null"
    /\ isGameOver /\ Disabled(lastEvent.index)

(***************************************************************************)
(* The session with players who keep playing: a click that handleClick     *)
(* accepts is not postponed forever while one is possible.                 *)
(***************************************************************************)
AcceptedMove ==
    \E index \in ClickInputs : ~ClickIgnored(index) /\ HandleClick(index)

SpecLive == Init /\ [][Next]_vars /\ WF_vars(AcceptedMove)

\* C18: at most 9 moves are accepted between two restarts; while the outcome
\* is None some empty cell's click would be accepted; and if accepted moves
\* keep being made, every open game reaches Win or Draw unless it is
\* restarted first.
C18_EveryGameTerminates ==
    /\ [](moveCount \in 0..9 /\ moveCount = Cardinality(Filled(squares)))
    /\ [](OutcomeNone =>
             \E i \in 0..8 : squares[i] = "null" /\ ~isGameOver /\ ~Disabled(i))
    /\ OutcomeNone ~> (OutcomeWin \/ OutcomeDraw \/ IsReset(lastEvent))

\* C18 witness: a game went to the ninth move and ended there in a draw.
C18_Witness ==
    /\ moveCount = 9 /\ OutcomeDraw
    /\ IsClick(lastEvent) /\ lastEvent.accepted

\* C19 (as stated): when the outcome is Win the reported line is one of the
\* 8 triples, its three cells hold the winner's mark and it contains the
\* cell of the most recently accepted move; otherwise the line is empty.
C19_WinningLineHoldsLastMove ==
    /\ OutcomeWin =>
          /\ \E n \in 1..8 : Status.line = Triples[n]
          /\ \A k \in 1..3 : squares[Status.line[k]] = Status.winner
          /\ (IsClick(lastEvent) /\ lastEvent.accepted) =>
                \E k \in 1..3 : Status.line[k] = lastEvent.index
    /\ ~OutcomeWin => Status.line = <<>>

\* Number of cells of board sq that hold mark m.
CountOf(sq, m) == Cardinality({c \in Cells : sq[c] = m})

\* C20: the number of X marks minus the number of O marks is 0 exactly when
\* X is to move and 1 exactly when O is to move, and never anything else;
\* a marked cell keeps its mark in every step that is not a reset.
C20_MarkBalanceAndPersistence ==
    [][/\ CountOf(squares, "X") - CountOf(squares, "O") = (IF xIsNext THEN 0 ELSE 1)
       /\ CountOf(squares', "X") - CountOf(squares', "O") = (IF xIsNext' THEN 0 ELSE 1)
       /\ ~IsReset(lastEvent') =>
             \A c \in 0..8 : squares[c] # "null" => squares'[c] = squares[c]]_vars

\* C20 witness: X has three marks, O two, O is to move, and the last move
\* was accepted next to marks that are still in place.
C20_Witness ==
    /\ CountOf(squares, "X") = 3 /\ CountOf(squares, "O") = 2
    /\ ~xIsNext
    /\ IsClick(lastEvent) /\ lastEvent.accepted

====
